---- MODULE Spec2Model ----
(***************************************************************************)
(* A model of lisp.py (PrimeLISP): the reader (getToken, getSexp), the     *)
(* printer (putSexp), the environment store (bind, resolve,                *)
(* update_global), the evaluator (eval, apply, evcon, evlis, _setq) and    *)
(* the read-eval-print loop of main, as run by CPython (is_prime = False). *)
(*                                                                         *)
(* Python objects.  Every Python list that the program mutates in place is *)
(* a binding [name, value] built by bind or update_global; such a list is  *)
(* a cell of `heap` and a value refers to it as Ref(i).  All other lists   *)
(* are never mutated after they are built and are modelled by value.       *)
(* Numbers are the integer-valued doubles (-0.0 is identified with 0.0);   *)
(* a primitive whose result leaves that domain ends the evaluation with    *)
(* the outcome "Unmodelled".                                               *)
(***************************************************************************)
EXTENDS Integers, Sequences, FiniteSets, TLC

VARIABLES inlin, Alist, heap, debug_flag, status, out, nlines,
          lastS, lastVal, lastErr, prevAlist, prevHeap

vars == <<inlin, Alist, heap, debug_flag, status, out, nlines,
          lastS, lastVal, lastErr, prevAlist, prevHeap>>

(***************************************************************************)
(* Bounds of the model.                                                    *)
(***************************************************************************)
\* lines the user types at the LISP> prompt in one session
MaxLines == 3
\* nesting of Python calls before RecursionError (sys.setrecursionlimit is
\* 10**4 in lisp.py): every evaluation of a session of MaxLines lines that
\* ends in Python ends within this nesting, so that RecursionError is the
\* outcome of the endless recursions only
MaxDepth == 14

(***************************************************************************)
(* S-expression values.                                                    *)
(***************************************************************************)
Num(n)  == <<"num", n>>
IntV(n) == <<"int", n>>
Sym(s)  == <<"sym", s>>
Lst(q)  == <<"list", q>>
Ref(i)  == <<"ref", i>>
None    == <<"none">>
NIL     == Lst(<<>>)
T       == Sym("t")

IsNum(v)   == v[1] = "num"
IsInt(v)   == v[1] = "int"
IsRef(v)   == v[1] = "ref"
IsNone(v)  == v[1] = "none"
isSymbol(x) == x[1] = "sym"
isNumber(x) == x[1] = "num"
\* type(x) == type([])
isList(x)  == x[1] \in {"list", "ref"}

\* the elements of a Python list: a binding cell is the list [name, value]
Items(v, h) == IF IsRef(v) THEN h[v[2]] ELSE v[2]

\* Python's truth value of an object (bool(x))
PyTruth(v, h) ==
  CASE v[1] = "list" -> Len(v[2]) > 0
    [] v[1] = "ref"  -> TRUE
    [] v[1] = "sym"  -> v[2] # ""
    [] v[1] = "num"  -> v[2] # 0
    [] v[1] = "int"  -> v[2] # 0
    [] OTHER         -> FALSE

\* x == [] for a Python object x
IsEmptyList(v) == v[1] = "list" /\ Len(v[2]) = 0

\* x == 'name' for a Python object x
IsSym(v, s) == v[1] = "sym" /\ v[2] = s

(***************************************************************************)
(* The reader.                                                             *)
(***************************************************************************)
\* c <= ' ' for a character of the input
IsSpace(c) == c \in {" ", "\n", "\t", "\r"}

Digits == {"0", "1", "2", "3", "4", "5", "6", "7", "8", "9"}

DigitVal(c) ==
  CASE c = "0" -> 0 [] c = "1" -> 1 [] c = "2" -> 2 [] c = "3" -> 3
    [] c = "4" -> 4 [] c = "5" -> 5 [] c = "6" -> 6 [] c = "7" -> 7
    [] c = "8" -> 8 [] c = "9" -> 9

RECURSIVE AllIn(_, _)
AllIn(s, S) == s = "" \/ (Head(s) \in S /\ AllIn(Tail(s), S))

RECURSIVE IndexOf(_, _, _)
\* the position of the first c in s at or after i, or 0
IndexOf(s, c, i) ==
  IF i > Len(s) THEN 0
  ELSE IF SubSeq(s, i, i) = c THEN i ELSE IndexOf(s, c, i + 1)

RECURSIVE DecVal(_, _)
DecVal(s, acc) ==
  IF s = "" THEN acc ELSE DecVal(Tail(s), 10 * acc + DigitVal(Head(s)))

Unsigned(a) == IF a # "" /\ Head(a) \in {"+", "-"} THEN Tail(a) ELSE a

\* float(a) succeeds: [sign] digits [. zeros] with at least one digit.
\* Tokens that Python reads as a number outside the model's number domain
\* (a fraction, an exponent, inf, nan) are not part of the modelled input.
IsFloat(a) ==
  LET u == Unsigned(a)
      p == IndexOf(u, ".", 1)
      ip == IF p = 0 THEN u ELSE SubSeq(u, 1, p - 1)
      fp == IF p = 0 THEN "" ELSE SubSeq(u, p + 1, Len(u))
  IN  /\ AllIn(ip, Digits)
      /\ AllIn(fp, {"0"})
      /\ Len(ip) + Len(fp) > 0

FloatVal(a) ==
  LET u == Unsigned(a)
      p == IndexOf(u, ".", 1)
      ip == IF p = 0 THEN u ELSE SubSeq(u, 1, p - 1)
      n == DecVal(ip, 0)
  IN  IF Head(a) = "-" THEN 0 - n ELSE n

RECURSIVE SkipSpace(_)
\* while nextChar() <= ' ': getChar()
SkipSpace(buf) ==
  IF buf # "" /\ IsSpace(Head(buf)) THEN SkipSpace(Tail(buf)) ELSE buf

RECURSIVE SymLen(_, _)
\* while nextChar() > ' ' and nextChar() not in ['(',')']: a = a + getChar()
\* the number of characters of buf, from position i, that the loop takes
SymLen(buf, i) ==
  IF i > Len(buf) THEN i - 1
  ELSE IF IsSpace(SubSeq(buf, i, i)) \/ SubSeq(buf, i, i) \in {"(", ")"}
       THEN i - 1
       ELSE SymLen(buf, i + 1)

\* getToken on the buffer buf: the token and the rest of the buffer, or
\* ok = FALSE when the buffer runs out and nextChar must ask for a line
getToken(buf) ==
  LET b == SkipSpace(buf) IN
  IF b = "" THEN [ok |-> FALSE, v |-> None, rest |-> ""]
  ELSE IF Head(b) \in {"(", ")", "'"}
  THEN [ok |-> TRUE, v |-> Sym(Head(b)), rest |-> Tail(b)]
  ELSE LET n == SymLen(b, 2)
           a == SubSeq(b, 1, n)
       IN  IF n = Len(b) THEN [ok |-> FALSE, v |-> None, rest |-> ""]
           ELSE [ok |-> TRUE,
                 v |-> IF IsFloat(a) THEN Num(FloatVal(a)) ELSE Sym(a),
                 rest |-> SubSeq(b, n + 1, Len(b))]

RECURSIVE getSexp(_)
RECURSIVE getSexpList(_, _)
\* the loop of getSexp: a.append(b) until b == ')'
getSexpList(buf, a) ==
  LET b == getSexp(buf) IN
  IF ~b.ok THEN b
  ELSE IF IsSym(b.v, ")") THEN [ok |-> TRUE, v |-> Lst(a), rest |-> b.rest]
  ELSE getSexpList(b.rest, Append(a, b.v))

getSexp(buf) ==
  LET a == getToken(buf) IN
  IF ~a.ok THEN a
  ELSE IF IsSym(a.v, "'")
  THEN LET q == getSexp(a.rest) IN
       IF ~q.ok THEN q
       ELSE [ok |-> TRUE, v |-> Lst(<<Sym("quote"), q.v>>), rest |-> q.rest]
  ELSE IF ~IsSym(a.v, "(") THEN a
  ELSE getSexpList(a.rest, <<>>)

(***************************************************************************)
(* The printer.                                                            *)
(***************************************************************************)
\* str(x) of a number, a symbol or None
StrAtom(s) ==
  CASE s[1] = "num" -> ToString(s[2]) \o ".0"
    [] s[1] = "int" -> ToString(s[2])
    [] s[1] = "sym" -> s[2]
    [] OTHER        -> "None"

RECURSIVE putSexp(_, _, _)
RECURSIVE putJoin(_, _, _)
\* ' '.join(map(putSexp, s))
putJoin(q, h, d) ==
  IF q = <<>> THEN [err |-> "", txt |-> ""]
  ELSE LET a == putSexp(Head(q), h, d) IN
       IF a.err # "" THEN a
       ELSE IF Len(q) = 1 THEN a
       ELSE LET r == putJoin(Tail(q), h, d) IN
            IF r.err # "" THEN r
            ELSE [err |-> "", txt |-> a.txt \o " " \o r.txt]

\* putSexp(s) with d more Python calls allowed: the text, or the exception
putSexp(s, h, d) ==
  IF d = 0 THEN [err |-> "RecursionError", txt |-> ""]
  ELSE IF isList(s)
  THEN LET q == Items(s, h) IN
       IF Len(q) > 0 /\ IsSym(q[1], "quote")
       THEN IF Len(q) < 2 THEN [err |-> "IndexError", txt |-> ""]
            ELSE LET r == putSexp(q[2], h, d - 1) IN
                 IF r.err # "" THEN r
                 ELSE [err |-> "", txt |-> "'" \o r.txt]
       ELSE LET r == putJoin(q, h, d - 1) IN
            IF r.err # "" THEN r
            ELSE [err |-> "", txt |-> "(" \o r.txt \o ")"]
  ELSE [err |-> "", txt |-> StrAtom(s)]

\* printAlist(alist): the lines "(name sexp)", or the exception of putSexp.
\* A name that is not a symbol or a number is printed by Python's repr of a
\* list, which is outside the model.
RECURSIVE printAlist(_, _, _)
printAlist(q, h, d) ==
  IF q = <<>> THEN [err |-> "", txt |-> ""]
  ELSE LET cell == Items(Head(q), h)
           p == putSexp(cell[2], h, d)
       IN  IF p.err # "" THEN p
           ELSE IF isList(cell[1]) THEN [err |-> "Unmodelled", txt |-> ""]
           ELSE LET r == printAlist(Tail(q), h, d) IN
                IF r.err # "" THEN r
                ELSE [err |-> "",
                      txt |-> "(" \o StrAtom(cell[1]) \o " " \o p.txt \o ")\n"
                              \o r.txt]

(***************************************************************************)
(* The state an evaluation threads through its calls: the heap of binding  *)
(* cells, the global Alist, the value returned (v) and the exception       *)
(* raised (err, "" when none).                                             *)
(***************************************************************************)
Ok(st)       == st.err = ""
Ret(st, v)   == [st EXCEPT !.v = v]
Raise(st, e) == [st EXCEPT !.v = None, !.err = e]

\* x[i] for a Python object x (i counted from 0)
PyIndex(st, x, i) ==
  CASE isList(x) ->
         IF i < Len(Items(x, st.heap)) THEN Ret(st, Items(x, st.heap)[i + 1])
         ELSE Raise(st, "IndexError")
    [] isSymbol(x) ->
         IF i < Len(x[2]) THEN Ret(st, Sym(SubSeq(x[2], i + 1, i + 1)))
         ELSE Raise(st, "IndexError")
    [] OTHER -> Raise(st, "TypeError")

\* x[i:] for a Python object x
PySlice(st, x, i) ==
  CASE isList(x) ->
         Ret(st, Lst(SubSeq(Items(x, st.heap), i + 1, Len(Items(x, st.heap)))))
    [] isSymbol(x) -> Ret(st, Sym(SubSeq(x[2], i + 1, Len(x[2]))))
    [] OTHER -> Raise(st, "TypeError")

IsNumeric(v) == v[1] \in {"num", "int"}

RECURSIVE PyEq(_, _, _, _)
RECURSIVE PyEqItems(_, _, _, _)
PyEqItems(p, q, h, d) ==
  IF p = <<>> THEN "T"
  ELSE LET e == PyEq(Head(p), Head(q), h, d) IN
       IF e # "T" THEN e ELSE PyEqItems(Tail(p), Tail(q), h, d)

\* a == b for Python objects: "T", "F", or "E" for RecursionError.  An
\* object equals itself (the identity shortcut of list comparison).
PyEq(a, b, h, d) ==
  IF IsNumeric(a) /\ IsNumeric(b) THEN (IF a[2] = b[2] THEN "T" ELSE "F")
  ELSE IF isList(a) /\ isList(b)
  THEN IF a = b THEN "T"
       ELSE IF Len(Items(a, h)) # Len(Items(b, h)) THEN "F"
       ELSE IF d = 0 THEN "E"
       ELSE PyEqItems(Items(a, h), Items(b, h), h, d - 1)
  ELSE IF a = b THEN "T" ELSE "F"

\* [[], 't'][b]
Bool(b) == IF b THEN T ELSE NIL

(***************************************************************************)
(* The environment store.                                                  *)
(***************************************************************************)
RECURSIVE bind_rev(_, _, _, _, _)
\* A variant of bind that puts each pair in front of the pairs before it, so
\* that the last name ends nearest the front: BindFirstNameNearestFront
\* tells bind from it.
bind_rev(names, values, alist, st, d) ==
  IF d = 0 THEN Raise(st, "RecursionError")
  ELSE IF ~PyTruth(names, st.heap) THEN Ret(st, alist)
  ELSE LET n0 == PyIndex(st, names, 0) IN
       IF ~Ok(n0) THEN n0
       ELSE IF values = <<>> THEN Raise(st, "IndexError")
       ELSE LET s1 == [st EXCEPT !.heap = Append(st.heap, <<n0.v, Head(values)>>)]
                k  == Len(s1.heap)
                ns == PySlice(s1, names, 1)
            IN  bind_rev(ns.v, Tail(values),
                         Lst(<<Ref(k)>> \o Items(alist, s1.heap)), s1, d - 1)

RECURSIVE bind(_, _, _, _, _)
\* bind(names, values, alist): names is any Python object, values a list
bind(names, values, alist, st, d) ==
  IF d = 0 THEN Raise(st, "RecursionError")
  ELSE IF ~PyTruth(names, st.heap) THEN Ret(st, alist)
  ELSE LET n0 == PyIndex(st, names, 0) IN
       IF ~Ok(n0) THEN n0
       ELSE IF values = <<>> THEN Raise(st, "IndexError")
       ELSE LET s1 == [st EXCEPT !.heap = Append(st.heap, <<n0.v, Head(values)>>)]
                k  == Len(s1.heap)
                ns == PySlice(s1, names, 1)
                r  == bind(ns.v, Tail(values), alist, s1, d - 1)
            IN  IF ~Ok(r) THEN r
                ELSE Ret(r, Lst(<<Ref(k)>> \o Items(r.v, r.heap)))

RECURSIVE resolve(_, _, _)
\* resolve(symbol, env): env as the sequence of its bindings
resolve(symbol, env, h) ==
  IF env = <<>> THEN NIL
  ELSE IF IsSym(Items(Head(env), h)[1], symbol[2]) THEN Items(Head(env), h)[2]
  ELSE resolve(symbol, Tail(env), h)

RECURSIVE ScanBack(_, _, _, _, _)
\* for i in range(len(alist)-1, -1, -1): if alist[i][0] == name
\* the position found (counted from 1), 0 when none, -1 for RecursionError
ScanBack(name, q, i, h, d) ==
  IF i = 0 THEN 0
  ELSE LET e == PyEq(Items(q[i], h)[1], name, h, d) IN
       IF e = "T" THEN i
       ELSE IF e = "E" THEN 0 - 1
       ELSE ScanBack(name, q, i - 1, h, d)

RECURSIVE ScanFront(_, _, _, _, _)
\* the scan of ScanBack, run from the front of alist
ScanFront(name, q, i, h, d) ==
  IF i > Len(q) THEN 0
  ELSE LET e == PyEq(Items(q[i], h)[1], name, h, d) IN
       IF e = "T" THEN i
       ELSE IF e = "E" THEN 0 - 1
       ELSE ScanFront(name, q, i + 1, h, d)

\* A variant of update_global that overwrites the binding nearest the front:
\* UpdateGlobalOneBinding tells update_global from it.
update_global_front(name, value, alist, st, d) ==
  LET q == Items(alist, st.heap)
      i == ScanFront(name, q, 1, st.heap, d)
  IN  IF i < 0 THEN Raise(st, "RecursionError")
      ELSE IF i > 0
      THEN [st EXCEPT !.heap[q[i][2]][2] = value, !.v = alist]
      ELSE [st EXCEPT !.heap = Append(st.heap, <<name, value>>),
                      !.v = Lst(<<Ref(Len(st.heap) + 1)>> \o q)]

\* update_global(name, value, alist)
update_global(name, value, alist, st, d) ==
  LET q == Items(alist, st.heap)
      i == ScanBack(name, q, Len(q), st.heap, d)
  IN  IF i < 0 THEN Raise(st, "RecursionError")
      ELSE IF i > 0
      THEN [st EXCEPT !.heap[q[i][2]][2] = value, !.v = alist]
      ELSE [st EXCEPT !.heap = Append(st.heap, <<name, value>>),
                      !.v = Lst(<<Ref(Len(st.heap) + 1)>> \o q)]

(***************************************************************************)
(* The primitives.                                                         *)
(***************************************************************************)
Plus(a, b) == IF IsInt(a) /\ IsInt(b) THEN IntV(a[2] + b[2]) ELSE Num(a[2] + b[2])
Minus(a, b) == IF IsInt(a) /\ IsInt(b) THEN IntV(a[2] - b[2]) ELSE Num(a[2] - b[2])

RECURSIVE PySum(_, _, _)
\* sum(args), from the int 0
PySum(st, args, acc) ==
  IF args = <<>> THEN Ret(st, acc)
  ELSE IF ~IsNumeric(Head(args)) THEN Raise(st, "TypeError")
  ELSE PySum(st, Tail(args), Plus(acc, Head(args)))

_diff(st, args) ==
  IF Len(args) = 1
  THEN IF IsNumeric(args[1]) THEN Ret(st, Minus(IntV(0), args[1]))
       ELSE Raise(st, "TypeError")
  ELSE IF args = <<>> THEN Raise(st, "IndexError")
  ELSE LET s == PySum(st, Tail(args), IntV(0)) IN
       IF ~Ok(s) THEN s
       ELSE IF ~IsNumeric(args[1]) THEN Raise(st, "TypeError")
       ELSE Ret(st, Minus(args[1], s.v))

RECURSIVE ProdFold(_, _, _)
ProdFold(st, args, tmp) ==
  IF args = <<>> THEN Ret(st, Num(tmp))
  ELSE IF ~IsNumeric(Head(args)) THEN Raise(st, "TypeError")
  ELSE ProdFold(st, Tail(args), tmp * Head(args)[2])

\* tmp = 1.0; for n in args: tmp = tmp * n
_prod(st, args) == ProdFold(st, args, 1)

Abs(n) == IF n < 0 THEN 0 - n ELSE n

\* a / b for numbers: exact quotients only
Quot(st, a, b) ==
  IF ~IsNumeric(a) \/ ~IsNumeric(b) THEN Raise(st, "TypeError")
  ELSE IF b[2] = 0 THEN Raise(st, "ZeroDivisionError")
  ELSE IF a[2] % Abs(b[2]) # 0 THEN Raise(st, "Unmodelled")
  ELSE Ret(st, Num((IF b[2] < 0 THEN 0 - 1 ELSE 1) * (a[2] \div Abs(b[2]))))

RECURSIVE DivFold(_, _, _)
DivFold(st, tmp, rest) ==
  IF rest = <<>> THEN Ret(st, tmp)
  ELSE LET r == Quot(st, tmp, Head(rest)) IN
       IF ~Ok(r) THEN r ELSE DivFold(st, r.v, Tail(rest))

_div(st, args) ==
  IF Len(args) = 1 THEN Quot(st, Num(1), args[1])
  ELSE IF args = <<>> THEN Raise(st, "IndexError")
  ELSE DivFold(st, args[1], Tail(args))

\* args[0] op args[1] for an ordering op: numbers are ordered; two strings
\* or two lists are ordered lexicographically by Python, outside the model
Compare(st, args, op) ==
  IF Len(args) < 2 THEN Raise(st, "IndexError")
  ELSE IF IsNumeric(args[1]) /\ IsNumeric(args[2])
  THEN Ret(st, Bool(CASE op = "<"  -> args[1][2] <  args[2][2]
                      [] op = "<=" -> args[1][2] <= args[2][2]
                      [] op = ">"  -> args[1][2] >  args[2][2]
                      [] OTHER     -> args[1][2] >= args[2][2]))
  ELSE IF (isSymbol(args[1]) /\ isSymbol(args[2]))
          \/ (isList(args[1]) /\ isList(args[2]))
  THEN Raise(st, "Unmodelled")
  ELSE Raise(st, "TypeError")

\* math.cos, math.sin, math.tan: of the argument 0 only
Trig(st, args, fn) ==
  IF args = <<>> THEN Raise(st, "IndexError")
  ELSE IF ~IsNumeric(args[1]) THEN Raise(st, "TypeError")
  ELSE IF args[1][2] # 0 THEN Raise(st, "Unmodelled")
  ELSE Ret(st, Num(IF fn = "cos" THEN 1 ELSE 0))

\* for a in args: print(a, end=" "); return a
_print(st, args) ==
  IF args = <<>> THEN Raise(st, "UnboundLocalError")
  ELSE Ret(st, args[Len(args)])

\* scream(mesg): prints, and returns None (sys.exit is commented out)
scream(st) == Ret(st, None)

Primitives ==
  {"atom", "car", "cdr", "+", "-", "*", "/", "eq", "<", "<=", ">", ">=",
   "not", "eval", "print", "cons", "cos", "sin", "tan"}

(***************************************************************************)
(* The evaluator.  An expression list is passed as the sequence of its     *)
(* elements, a callee gets d - 1 of the caller's d remaining Python calls. *)
(***************************************************************************)
\* if debug_flag: print("--Eval--- %s" % putSexp(exp)); printAlist(alist)
\* the exception the trace raises, "" when none
DebugEval(exp, alist, st, d) ==
  LET p == putSexp(exp, st.heap, d) IN
  IF p.err # "" THEN p.err
  ELSE printAlist(Items(alist, st.heap), st.heap, d).err

\* if debug_flag: print("--Apply-- %s  Args=%s" % (putSexp(fn), putSexp(args)))
\*                printAlist(alist)
DebugApply(fn, args, alist, st, d) ==
  LET p == putSexp(fn, st.heap, d) IN
  IF p.err # "" THEN p.err
  ELSE LET a == putSexp(Lst(args), st.heap, d) IN
       IF a.err # "" THEN a.err
       ELSE printAlist(Items(alist, st.heap), st.heap, d).err

RECURSIVE Chars(_)
\* the characters of a string, as symbols (iterating a Python str)
Chars(s) == IF s = "" THEN <<>> ELSE <<Sym(Head(s))>> \o Chars(Tail(s))

RECURSIVE AppendAll(_, _, _)
\* tmp = []; for l in ...: tmp += l
AppendAll(st, ls, tmp) ==
  IF ls = <<>> THEN Ret(st, Lst(tmp))
  ELSE IF isList(Head(ls))
  THEN AppendAll(st, Tail(ls), tmp \o Items(Head(ls), st.heap))
  ELSE IF isSymbol(Head(ls))
  THEN AppendAll(st, Tail(ls), tmp \o Chars(Head(ls)[2]))
  ELSE Raise(st, "TypeError")

RECURSIVE eval(_, _, _, _)
RECURSIVE evalForm(_, _, _, _)
RECURSIVE apply(_, _, _, _, _)
RECURSIVE applyLambda(_, _, _, _, _)
RECURSIVE evbody(_, _, _, _)
RECURSIVE evcon(_, _, _, _)
RECURSIVE evlis(_, _, _, _)
RECURSIVE _setq(_, _, _, _, _)

\* evlis(list, alist): the list of the values, left to right
evlis(list, alist, st, d) ==
  IF d = 0 THEN Raise(st, "RecursionError")
  ELSE IF list = <<>> THEN Ret(st, NIL)
  ELSE LET a == eval(Head(list), alist, st, d - 1) IN
       IF ~Ok(a) THEN a
       ELSE LET r == evlis(Tail(list), alist, a, d - 1) IN
            IF ~Ok(r) THEN r ELSE Ret(r, Lst(<<a.v>> \o r.v[2]))

\* evcon(c, alist): the clauses of a cond
evcon(c, alist, st, d) ==
  IF d = 0 THEN Raise(st, "RecursionError")
  ELSE IF c = <<>> THEN Ret(st, NIL)
  ELSE LET c00 == PyIndex(st, c[1], 0) IN
       IF ~Ok(c00) THEN c00
       ELSE LET p == eval(c00.v, alist, st, d - 1) IN
            IF ~Ok(p) THEN p
            ELSE IF PyTruth(p.v, p.heap)
            THEN LET c01 == PyIndex(p, c[1], 1) IN
                 IF ~Ok(c01) THEN c01 ELSE eval(c01.v, alist, p, d - 1)
            ELSE evcon(Tail(c), alist, p, d - 1)

\* _setq(exp, alist, ret): the name/value pairs of a setq, two by two
_setq(exp, alist, ret, st, d) ==
  IF d = 0 THEN Raise(st, "RecursionError")
  ELSE IF Len(exp) < 2 THEN Ret(st, ret)
  ELSE LET tmp == eval(exp[2], alist, st, d - 1) IN
       IF ~Ok(tmp) THEN tmp
       ELSE LET u == update_global(exp[1], tmp.v, alist, tmp, d - 1) IN
            IF ~Ok(u) THEN u
            ELSE _setq(SubSeq(exp, 3, Len(exp)), u.v, tmp.v,
                       [u EXCEPT !.Alist = u.v], d - 1)

\* for i in range(2, len(fn)): tmp = eval(fn[i], tmp_alist); return tmp
evbody(body, tmp_alist, st, d) ==
  IF body = <<>> THEN Raise(st, "UnboundLocalError")
  ELSE LET tmp == eval(Head(body), tmp_alist, st, d - 1) IN
       IF ~Ok(tmp) \/ Len(body) = 1 THEN tmp
       ELSE evbody(Tail(body), tmp_alist, tmp, d)

\* A variant of the lambda branch that extends the global Alist instead of
\* the environment of the call: DynamicScope tells applyLambda from it.
applyLambda_root(fn, args, alist, st, d) ==
  LET f1 == PyIndex(st, fn, 1) IN
  IF ~Ok(f1) THEN f1
  ELSE LET b == bind(f1.v, args, st.Alist, st, d - 1) IN
       IF ~Ok(b) THEN b
       ELSE evbody(SubSeq(Items(fn, st.heap), 3, Len(Items(fn, st.heap))),
                   b.v, b, d)

\* the branch of apply for fn[0] == 'lambda'
applyLambda(fn, args, alist, st, d) ==
  LET f1 == PyIndex(st, fn, 1) IN
  IF ~Ok(f1) THEN f1
  ELSE LET b == bind(f1.v, args, alist, st, d - 1) IN
       IF ~Ok(b) THEN b
       ELSE evbody(SubSeq(Items(fn, st.heap), 3, Len(Items(fn, st.heap))),
                   b.v, b, d)

\* apply(fn, args, alist)
apply(fn, args, alist, st, d) ==
  IF d = 0 THEN Raise(st, "RecursionError")
  ELSE LET t == IF st.dbg THEN DebugApply(fn, args, alist, st, d - 1) ELSE "" IN
  IF t # "" THEN Raise(st, t)
  ELSE IF isSymbol(fn)
  THEN CASE fn[2] = "atom" ->
              IF args = <<>> THEN Raise(st, "IndexError")
              ELSE Ret(st, Bool(~isList(args[1])))
         [] fn[2] = "car" ->
              IF args = <<>> THEN Raise(st, "IndexError")
              ELSE PyIndex(st, args[1], 0)
         [] fn[2] = "cdr" ->
              IF args = <<>> THEN Raise(st, "IndexError")
              ELSE PySlice(st, args[1], 1)
         [] fn[2] = "+" -> PySum(st, args, IntV(0))
         [] fn[2] = "-" -> _diff(st, args)
         [] fn[2] = "*" -> _prod(st, args)
         [] fn[2] = "/" -> _div(st, args)
         [] fn[2] = "eq" ->
              IF Len(args) < 2 THEN Raise(st, "IndexError")
              ELSE LET e == PyEq(args[1], args[2], st.heap, d - 1) IN
                   IF e = "E" THEN Raise(st, "RecursionError")
                   ELSE Ret(st, Bool(e = "T"))
         [] fn[2] \in {"<", "<=", ">", ">="} -> Compare(st, args, fn[2])
         [] fn[2] = "not" ->
              IF args = <<>> THEN Raise(st, "IndexError")
              ELSE Ret(st, Bool(IsEmptyList(args[1])))
         [] fn[2] = "eval" ->
              IF args = <<>> THEN Raise(st, "IndexError")
              ELSE eval(args[1], alist, st, d - 1)
         [] fn[2] = "print" -> _print(st, args)
         [] fn[2] = "cons" ->
              IF Len(args) < 2 THEN Raise(st, "IndexError")
              ELSE Ret(st, Lst(<<args[1]>> \o
                               (IF isList(args[2]) THEN Items(args[2], st.heap)
                                ELSE <<args[2]>>)))
         [] fn[2] \in {"cos", "sin", "tan"} -> Trig(st, args, fn[2])
         [] OTHER ->
              LET f == eval(fn, alist, st, d - 1) IN
              IF ~Ok(f) THEN f ELSE apply(f.v, args, alist, f, d - 1)
  ELSE LET f0 == PyIndex(st, fn, 0) IN
       IF ~Ok(f0) THEN f0
       ELSE IF IsSym(f0.v, "lambda") THEN applyLambda(fn, args, alist, st, d)
       ELSE scream(st)

\* the special forms and the application of eval: exp is a non-empty list
evalForm(exp, alist, st, d) ==
  CASE IsSym(exp[1], "quote") ->
         IF Len(exp) < 2 THEN Raise(st, "IndexError") ELSE Ret(st, exp[2])
    [] IsSym(exp[1], "list") -> evlis(Tail(exp), alist, st, d - 1)
    [] IsSym(exp[1], "append") ->
         LET x == evlis(Tail(exp), alist, st, d - 1) IN
         IF ~Ok(x) THEN x ELSE AppendAll(x, x.v[2], <<>>)
    [] IsSym(exp[1], "setq") -> _setq(Tail(exp), alist, NIL, st, d - 1)
    [] IsSym(exp[1], "set") ->
         LET x == evlis(Tail(exp), alist, st, d - 1) IN
         IF ~Ok(x) THEN x ELSE _setq(x.v[2], alist, NIL, x, d - 1)
    [] IsSym(exp[1], "def") ->
         IF Len(exp) < 3 THEN Raise(st, "IndexError")
         ELSE LET b == bind(Lst(<<exp[2]>>), <<exp[3]>>, alist, st, d - 1) IN
              IF ~Ok(b) THEN b ELSE [b EXCEPT !.Alist = b.v, !.v = exp[2]]
    [] IsSym(exp[1], "defun") ->
         IF Len(exp) < 2 THEN Raise(st, "IndexError")
         ELSE LET b == bind(Lst(<<exp[2]>>),
                            <<Lst(<<Sym("lambda")>> \o SubSeq(exp, 3, Len(exp)))>>,
                            alist, st, d - 1)
              IN  IF ~Ok(b) THEN b ELSE [b EXCEPT !.Alist = b.v, !.v = exp[2]]
    [] IsSym(exp[1], "cond") -> evcon(Tail(exp), alist, st, d - 1)
    [] OTHER ->
         LET x == evlis(Tail(exp), alist, st, d - 1) IN
         IF ~Ok(x) THEN x ELSE apply(exp[1], x.v[2], alist, x, d - 1)

\* eval(exp, alist)
eval(exp, alist, st, d) ==
  IF d = 0 THEN Raise(st, "RecursionError")
  ELSE LET t == IF st.dbg THEN DebugEval(exp, alist, st, d - 1) ELSE "" IN
  IF t # "" THEN Raise(st, t)
  ELSE IF IsSym(exp, "t") THEN Ret(st, T)
  ELSE IF IsSym(exp, "nil") THEN Ret(st, NIL)
  ELSE IF IsEmptyList(exp) THEN Ret(st, NIL)
  ELSE IF IsSym(exp, "alist") THEN Ret(st, st.Alist)
  ELSE IF isNumber(exp) THEN Ret(st, exp)
  ELSE IF isSymbol(exp)
  THEN Ret(st, resolve(exp, Items(alist, st.heap), st.heap))
  ELSE IF ~isList(exp) THEN Raise(st, "TypeError")
  ELSE evalForm(Items(exp, st.heap), alist, st, d)

(***************************************************************************)
(* The session: the bootstrap text, the lines typed at the prompt, and one *)
(* action for each way an iteration of the loop of main can go.            *)
(***************************************************************************)
\* inlin as the module sets it: the bootstrap LISP code
Bootstrap ==
  "\n(defun fact (x)\n  (cond\n    ( (eq x 0) 1)\n"
  \o "    ( t        (* x (fact (- x 1))))))\n\n"
  \o "(defun member ( X L)\n  (cond\n    ( (eq L () )      ())\n"
  \o "    ( (eq X (car L )) L)\n"
  \o "    ( t               (member X (cdr L)))))\n\n"
  \o "(defun reverse (L)\n  (cond\n    ( (not L) ())\n"
  \o "    ( t (append (reverse (cdr L)) (car L)))))\n"

\* the lines a user may type at the LISP> prompt
InputLines ==
  { "(setq x 1)", "x", "(setq x alist)",
    "(cond (0 1) (t 2))",
    "(cond (nil (setq x 5)) ('a 3) ((setq x 9) 4))",
    "(set 'x 'y)", "(set 'x 2)",
    "((lambda (x) (setq y 1)) 5)",
    "(list (setq x 3) x)",
    "(def x 5) (def x 6)",
    "(list ((foo) 1) 2)",
    "((lambda (a a) a) 1 2)",
    "(def f (lambda () x))", "((lambda (x) (f)) 5)", "((lambda (y) x) 7)",
    "(quote a b)",
    "alist", "quit", "debug" }

\* the state an evaluation starts from
St0(al, hp, dbg) ==
  [v |-> None, heap |-> hp, Alist |-> al, err |-> "", dbg |-> dbg]

\* s = getSexp() of main, on the current buffer
NextSexp == getSexp(inlin)

\* how the session goes on after an exception of kind err
Ended(err) == IF err = "Unmodelled" THEN "unmodelled" ELSE "crashed"

\* nextChar: inlin = input("LISP>") + " ", when getSexp has used up the buffer
ReadLine ==
  /\ status = "run"
  /\ ~NextSexp.ok
  /\ nlines < MaxLines
  /\ \E line \in InputLines : inlin' = SkipSpace(inlin) \o line \o " "
  /\ nlines' = nlines + 1
  /\ UNCHANGED <<Alist, heap, debug_flag, status, out,
                 lastS, lastVal, lastErr, prevAlist, prevHeap>>

\* main: s == 'alist': printAlist(Alist)
ShowAlist ==
  /\ status = "run"
  /\ NextSexp.ok
  /\ IsSym(NextSexp.v, "alist")
  /\ LET p == printAlist(Items(Alist, heap), heap, MaxDepth) IN
     /\ out' = p.txt
     /\ status' = IF p.err = "" THEN "run" ELSE Ended(p.err)
     /\ lastErr' = p.err
  /\ inlin' = NextSexp.rest
  /\ lastS' = NextSexp.v
  /\ lastVal' = None
  /\ prevAlist' = Alist
  /\ prevHeap' = heap
  /\ UNCHANGED <<Alist, heap, debug_flag, nlines>>

\* main: s == 'exit' or s == 'quit': quit()
Quit ==
  /\ status = "run"
  /\ NextSexp.ok
  /\ NextSexp.v \in {Sym("exit"), Sym("quit")}
  /\ status' = "quit"
  /\ inlin' = NextSexp.rest
  /\ lastS' = NextSexp.v
  /\ lastVal' = None
  /\ lastErr' = ""
  /\ prevAlist' = Alist
  /\ prevHeap' = heap
  /\ UNCHANGED <<Alist, heap, debug_flag, out, nlines>>

\* main: s == 'debug': debug_flag = not debug_flag
ToggleDebug ==
  /\ status = "run"
  /\ NextSexp.ok
  /\ IsSym(NextSexp.v, "debug")
  /\ debug_flag' = ~debug_flag
  /\ inlin' = NextSexp.rest
  /\ lastS' = NextSexp.v
  /\ lastVal' = None
  /\ lastErr' = ""
  /\ prevAlist' = Alist
  /\ prevHeap' = heap
  /\ UNCHANGED <<Alist, heap, status, out, nlines>>

\* print(putSexp(...)) of main, for the outcome r of eval
Printed(r) ==
  IF Ok(r) THEN putSexp(r.v, r.heap, MaxDepth) ELSE [err |-> r.err, txt |-> ""]

\* the end of an iteration of main whose eval had the outcome r
Finish(r) ==
  /\ Alist' = r.Alist
  /\ heap' = r.heap
  /\ out' = Printed(r).txt
  /\ status' = IF Printed(r).err = "" THEN "run" ELSE Ended(Printed(r).err)
  /\ lastVal' = r.v
  /\ lastErr' = r.err

\* main: try: print(putSexp(eval(s, Alist))); except: scream(...); raise
EvalPrint ==
  /\ status = "run"
  /\ NextSexp.ok
  /\ ~(NextSexp.v \in {Sym("alist"), Sym("exit"), Sym("quit"), Sym("debug")})
  /\ Finish(eval(NextSexp.v, Alist, St0(Alist, heap, debug_flag), MaxDepth))
  /\ inlin' = NextSexp.rest
  /\ lastS' = NextSexp.v
  /\ prevAlist' = Alist
  /\ prevHeap' = heap
  /\ UNCHANGED <<debug_flag, nlines>>

Init ==
  /\ inlin = Bootstrap
  /\ Alist = NIL
  /\ heap = <<>>
  /\ debug_flag = FALSE
  /\ status = "run"
  /\ out = ""
  /\ nlines = 0
  /\ lastS = None
  /\ lastVal = None
  /\ lastErr = ""
  /\ prevAlist = NIL
  /\ prevHeap = <<>>

Next == ReadLine \/ ShowAlist \/ Quit \/ ToggleDebug \/ EvalPrint

Spec == Init /\ [][Next]_vars

(***************************************************************************)
(* Properties.  They speak of the last iteration of main: lastS is the     *)
(* S-expression it read, prevAlist and prevHeap the environment it started *)
(* from, lastVal and lastErr the value and the exception of its eval.      *)
(***************************************************************************)
Range(q) == {q[i] : i \in 1..Len(q)}

\* the last iteration went through the try block of main
Evaluated ==
  /\ ~IsNone(lastS)
  /\ ~(lastS \in {Sym("alist"), Sym("exit"), Sym("quit"), Sym("debug")})

\* the state the eval of the last iteration started from
Pre == St0(prevAlist, prevHeap, debug_flag)

\* a symbol that eval looks up in the environment
IsOrdinary(s) == isSymbol(s) /\ ~(s[2] \in {"t", "nil", "alist"})

\* the positions of the bindings of name in the environment q
Bound(name, q, h) == {i \in 1..Len(q) : IsSym(Items(q[i], h)[1], name[2])}

Last(S) == CHOOSE m \in S : \A j \in S : j <= m
First(S) == CHOOSE m \in S : \A j \in S : m <= j

\* s is ((lambda ...) args...)
IsLambdaCall(s) ==
  /\ s[1] = "list"
  /\ Len(s[2]) >= 1
  /\ s[2][1][1] = "list"
  /\ Len(s[2][1][2]) >= 2
  /\ IsSym(s[2][1][2][1], "lambda")

(***************************************************************************)
(* C1                                                                      *)
(***************************************************************************)
\* s is (cond (p e) ...), every clause a list of two elements
IsCond(s) ==
  /\ s[1] = "list"
  /\ Len(s[2]) >= 1
  /\ IsSym(s[2][1], "cond")
  /\ \A i \in 2..Len(s[2]) : s[2][i][1] = "list" /\ Len(s[2][i][2]) = 2

RECURSIVE CondRef(_, _, _, _)
\* the outcome the rule "first clause whose predicate is anything but the
\* empty list" gives to the clauses c, predicates evaluated in order
CondRef(c, alist, st, d) ==
  IF c = <<>> THEN Ret(st, NIL)
  ELSE LET p == eval(c[1][2][1], alist, st, d - 1) IN
       IF ~Ok(p) THEN p
       ELSE IF ~IsEmptyList(p.v) THEN eval(c[1][2][2], alist, p, d - 1)
       ELSE CondRef(Tail(c), alist, p, d - 1)

\* C1: a cond evaluates its predicates in order and returns the value of the
\* expression of the first clause whose predicate is not the empty list
\* (any other value, the number 0 included, selects the clause), no later
\* clause is evaluated, and it returns the empty list when no clause is
\* selected.
CondFirstTruthy ==
  (Evaluated /\ IsCond(lastS)) =>
    LET ref == CondRef(Tail(lastS[2]), prevAlist, Pre, MaxDepth - 1) IN
    Ok(ref) => /\ lastErr = ""
               /\ lastVal = ref.v
               /\ Alist = ref.Alist
               /\ heap = ref.heap

(***************************************************************************)
(* C2                                                                      *)
(***************************************************************************)
\* s is (set 'name expr)
IsSetQuoted(s) ==
  /\ s[1] = "list"
  /\ Len(s[2]) = 3
  /\ IsSym(s[2][1], "set")
  /\ s[2][2][1] = "list"
  /\ Len(s[2][2][2]) = 2
  /\ IsSym(s[2][2][2][1], "quote")
  /\ isSymbol(s[2][2][2][2])

\* C2: (set 'name expr) has the outcome of (setq name expr): the same value
\* returned and the same environment afterwards, with expr evaluated once.
SetIsSetq ==
  (Evaluated /\ IsSetQuoted(lastS)) =>
    LET r == eval(Lst(<<Sym("setq"), lastS[2][2][2][2], lastS[2][3]>>),
                  prevAlist, Pre, MaxDepth)
    IN  /\ lastErr = r.err
        /\ lastVal = r.v
        /\ Alist = r.Alist
        /\ heap = r.heap

(***************************************************************************)
(* C6                                                                      *)
(***************************************************************************)
RECURSIVE HasNone(_)
\* the value v is, or holds, the None that apply returns after scream
HasNone(v) ==
  \/ IsNone(v)
  \/ (v[1] = "list" /\ \E i \in 1..Len(v[2]) : HasNone(v[2][i]))

\* C6: an apply of something that is no primitive, no lambda list and no
\* symbol bound to one ends the evaluation in an error and yields no value,
\* so the value apply returns after scream (None) is part of no result of
\* eval and of no binding.
CannotApplyIsHard ==
  /\ (Evaluated /\ lastErr = "") => ~HasNone(lastVal)
  /\ \A i \in 1..Len(heap) : ~HasNone(heap[i][2])

(***************************************************************************)
(* C7                                                                      *)
(***************************************************************************)
\* C7: putSexp is the inverse of getSexp: the text putSexp gives for an
\* S-expression that getSexp has read parses back, through getSexp, to that
\* same S-expression.
PutSexpInvertsGetSexp ==
  ~IsNone(lastS) =>
    LET p == putSexp(lastS, <<>>, MaxDepth) IN
    /\ p.err = ""
    /\ getSexp(p.txt \o " ") = [ok |-> TRUE, v |-> lastS, rest |-> " "]

(***************************************************************************)
(* C8                                                                      *)
(***************************************************************************)
RECURSIVE RefsIn(_)
\* the binding cells the value v holds
RefsIn(v) ==
  IF IsRef(v) THEN {v[2]}
  ELSE IF v[1] = "list" THEN UNION {RefsIn(v[2][i]) : i \in 1..Len(v[2])}
  ELSE {}

\* the binding cells the name and the value of cell i hold
Inside(i, h) == RefsIn(h[i][1]) \cup RefsIn(h[i][2])

RECURSIVE Reach(_, _, _)
\* the cells reached from the cells S in at most n steps
Reach(S, h, n) ==
  IF n = 0 THEN S
  ELSE Reach(S \cup UNION {Inside(i, h) : i \in S}, h, n - 1)

\* C8: every value bound in the environment and every value eval returns is
\* a finite tree: no binding holds, at any depth, itself or the environment
\* that holds it.
ValuesAcyclic ==
  \A i \in Reach(RefsIn(Alist) \cup RefsIn(lastVal), heap, Len(heap)) :
    ~(i \in Reach(Inside(i, heap), heap, Len(heap)))

(***************************************************************************)
(* C3                                                                      *)
(***************************************************************************)
\* names and values update_global is tried on in every reachable state
ProbeNames == {"x", "y", "f", "fact", "zz"}
ProbeValues == {Num(7), NIL, T}

\* what update_global(name, value, env) must leave: env2 and the heap h2,
\* from env and the heap h
OneBindingChanged(name, value, env, h, env2, h2) ==
  LET q == Items(env, h)
      S == Bound(name, q, h)
  IN  IF S # {}
      THEN /\ env2 = env
           /\ Len(h2) = Len(h)
           /\ h2[q[Last(S)][2]] = <<name, value>>
           /\ \A j \in 1..Len(h) : j # q[Last(S)][2] => h2[j] = h[j]
      ELSE /\ Len(h2) = Len(h) + 1
           /\ h2[Len(h2)] = <<name, value>>
           /\ \A j \in 1..Len(h) : h2[j] = h[j]
           /\ env2 = Lst(<<Ref(Len(h2))>> \o q)

\* s is (setq name c) for a symbol name and a number c
IsSetqConst(s) ==
  /\ s[1] = "list"
  /\ Len(s[2]) = 3
  /\ IsSym(s[2][1], "setq")
  /\ isSymbol(s[2][2])
  /\ isNumber(s[2][3])

\* C3: update_global(name, value, env) changes exactly one binding: when env
\* binds name, the value of the binding of name nearest the rear is replaced
\* and the length of env and every other binding (name, value, position)
\* stay as they were; when env does not bind name, one binding (name, value)
\* is added at the front and all others stay.  Stated of update_global on
\* the environment of every reachable state, the global Alist itself among
\* the values, and of every (setq name c) typed at the prompt.
UpdateGlobalOneBinding ==
  /\ \A n \in ProbeNames : \A v \in ProbeValues \cup {Alist} :
       LET r == update_global(Sym(n), v, Alist,
                              St0(Alist, heap, debug_flag), MaxDepth)
       IN  Ok(r) => OneBindingChanged(Sym(n), v, Alist, heap, r.v, r.heap)
  /\ (Evaluated /\ IsSetqConst(lastS) /\ lastErr = "") =>
       OneBindingChanged(lastS[2][2], lastS[2][3],
                         prevAlist, prevHeap, Alist, heap)

\* (setq x 1) has run on an environment that binds x twice, to 5 at the rear
\* and to 6 in front of it: the rear binding now holds 1, the front one 6
UpdateGlobalRearmostWitness ==
  /\ Evaluated
  /\ lastErr = ""
  /\ lastS = Lst(<<Sym("setq"), Sym("x"), Num(1)>>)
  /\ LET q == Items(prevAlist, prevHeap)
         S == Bound(Sym("x"), q, prevHeap)
     IN  /\ Cardinality(S) >= 2
         /\ prevHeap[q[Last(S)][2]][2] = Num(5)
         /\ heap[q[Last(S)][2]][2] = Num(1)
         /\ heap[q[First(S)][2]][2] = Num(6)

(***************************************************************************)
(* C4                                                                      *)
(***************************************************************************)
\* C4: the parameter bindings of a lambda application live in a scratch
\* environment that is dropped when the application returns: after
\* ((lambda params body...) args...) has been evaluated, none of the
\* bindings made for params is part of the global Alist.
LambdaScratchDiscarded ==
  (Evaluated /\ IsLambdaCall(lastS) /\ lastErr = "") =>
    LET x == evlis(Tail(lastS[2]), prevAlist, Pre, MaxDepth - 1)
        b == bind(lastS[2][1][2][2], x.v[2], prevAlist, x, MaxDepth - 2)
    IN  \A i \in (Len(x.heap) + 1)..Len(b.heap) :
          ~(Ref(i) \in Range(Items(Alist, heap)))

(***************************************************************************)
(* C5                                                                      *)
(***************************************************************************)
\* the last expression of the body of the lambda applied by s
LastBody(s) == s[2][1][2][Len(s[2][1][2])]

\* s is ((lambda (...) ... y) args...), y a symbol that is no parameter
ReturnsFree(s) ==
  /\ IsLambdaCall(s)
  /\ Len(s[2][1][2]) >= 3
  /\ s[2][1][2][2][1] = "list"
  /\ IsOrdinary(LastBody(s))
  /\ ~(LastBody(s) \in Range(s[2][1][2][2][2]))

\* s is ((lambda (p) (g)) a): p and g symbols, g not p, a a number
CallsThrough(s) ==
  /\ IsLambdaCall(s)
  /\ Len(s[2]) = 2
  /\ isNumber(s[2][2])
  /\ Len(s[2][1][2]) = 3
  /\ s[2][1][2][2][1] = "list"
  /\ Len(s[2][1][2][2][2]) = 1
  /\ IsOrdinary(s[2][1][2][2][2][1])
  /\ s[2][1][2][3][1] = "list"
  /\ Len(s[2][1][2][3][2]) = 1
  /\ IsOrdinary(s[2][1][2][3][2][1])
  /\ s[2][1][2][3][2][1] # s[2][1][2][2][2][1]

\* v is (lambda () y) for a symbol y that eval looks up
IsThunk(v) ==
  /\ v[1] = "list"
  /\ Len(v[2]) = 3
  /\ IsSym(v[2][1], "lambda")
  /\ IsEmptyList(v[2][2])
  /\ IsOrdinary(v[2][3])

\* C5: scoping is dynamic.  A free symbol of a lambda body is looked up in
\* the environment of the call: the lambda applied at the prompt finds the
\* frontmost binding of the global Alist, and a lambda (lambda () y) called
\* from the body of ((lambda (p) (g)) a) finds the caller's parameter when
\* y is p, whatever y was bound to when the lambda was defined.
DynamicScope ==
  /\ (Evaluated /\ lastErr = "" /\ ReturnsFree(lastS)) =>
       lastVal = resolve(LastBody(lastS), Items(prevAlist, heap), heap)
  /\ (Evaluated /\ lastErr = "" /\ CallsThrough(lastS)) =>
       LET p == lastS[2][1][2][2][2][1]
           g == lastS[2][1][2][3][2][1]
           v == resolve(g, Items(prevAlist, prevHeap), prevHeap)
       IN  IsThunk(v) =>
             lastVal = IF v[2][3] = p THEN lastS[2][2]
                       ELSE resolve(v[2][3], Items(prevAlist, heap), heap)

\* ((lambda (x) (f)) 5) has returned 5 where f is (lambda () x) and the
\* global Alist binds x to 1
DynamicScopeWitness ==
  /\ Evaluated
  /\ lastErr = ""
  /\ CallsThrough(lastS)
  /\ lastS[2][1][2][2][2][1] = Sym("x")
  /\ resolve(Sym("f"), Items(prevAlist, prevHeap), prevHeap)
       = Lst(<<Sym("lambda"), NIL, Sym("x")>>)
  /\ resolve(Sym("x"), Items(prevAlist, prevHeap), prevHeap) = Num(1)
  /\ lastS[2][2] = Num(5)
  /\ lastVal = Num(5)

(***************************************************************************)
(* C9                                                                      *)
(***************************************************************************)
\* s is ((lambda (n_1 ... n_k) ...) c_1 ... c_k): k >= 1 symbols and as many
\* numbers
IsConstCall(s) ==
  /\ IsLambdaCall(s)
  /\ s[2][1][2][2][1] = "list"
  /\ Len(s[2][1][2][2][2]) = Len(s[2]) - 1
  /\ Len(s[2]) >= 2
  /\ \A i \in 1..Len(s[2][1][2][2][2]) : isSymbol(s[2][1][2][2][2][i])
  /\ \A i \in 2..Len(s[2]) : isNumber(s[2][i])

\* bind(names, values, env) as apply runs it for the call at the prompt
BindOfCall ==
  bind(lastS[2][1][2][2], Tail(lastS[2]), prevAlist, Pre, MaxDepth - 2)

\* the outcome b of bind leaves env, the bindings of env and the global
\* Alist as they were, and puts k bindings in front of env
BindExtends(b, k) ==
  /\ Ok(b)
  /\ Len(Items(b.v, b.heap)) = k + Len(Items(prevAlist, prevHeap))
  /\ SubSeq(Items(b.v, b.heap), k + 1, Len(Items(b.v, b.heap)))
       = Items(prevAlist, prevHeap)
  /\ \A j \in 1..Len(prevHeap) : b.heap[j] = prevHeap[j]
  /\ b.Alist = prevAlist

\* the body of the lambda applied by s is one parameter name
ReturnsParam(s) ==
  /\ Len(s[2][1][2]) = 3
  /\ s[2][1][2][3] \in Range(s[2][1][2][2][2])

\* C9 as the specification states it: bind(names, values, env) returns the
\* pairs in reverse order in front of env, [(n_k,v_k), ..., (n_1,v_1)] ++ env,
\* the last name nearest the front, so that a lookup of a parameter name
\* declared twice gives the later argument; env is not changed.
BindLastNameNearestFront ==
  (Evaluated /\ IsConstCall(lastS)) =>
    LET names == lastS[2][1][2][2][2]
        vals  == Tail(lastS[2])
        k     == Len(names)
        b     == BindOfCall
    IN  /\ BindExtends(b, k)
        /\ \A i \in 1..k :
             Items(Items(b.v, b.heap)[i], b.heap)
               = <<names[k + 1 - i], vals[k + 1 - i]>>
        /\ (lastErr = "" /\ ReturnsParam(lastS)) =>
             lastVal = vals[Last({i \in 1..k : names[i] = lastS[2][1][2][3]})]

\* C9 as the code has it: bind(names, values, env) returns the pairs in the
\* order given in front of env, [(n_1,v_1), ..., (n_k,v_k)] ++ env, the first
\* name nearest the front, so that a lookup of a parameter name declared
\* twice gives the earlier argument; env is not changed.
BindFirstNameNearestFront ==
  (Evaluated /\ IsConstCall(lastS)) =>
    LET names == lastS[2][1][2][2][2]
        vals  == Tail(lastS[2])
        k     == Len(names)
        b     == BindOfCall
    IN  /\ BindExtends(b, k)
        /\ \A i \in 1..k :
             Items(Items(b.v, b.heap)[i], b.heap) = <<names[i], vals[i]>>
        /\ (lastErr = "" /\ ReturnsParam(lastS)) =>
             lastVal = vals[First({i \in 1..k : names[i] = lastS[2][1][2][3]})]

\* ((lambda (a a) a) 1 2) has returned 1
BindDuplicateWitness ==
  /\ Evaluated
  /\ lastErr = ""
  /\ lastS = Lst(<<Lst(<<Sym("lambda"), Lst(<<Sym("a"), Sym("a")>>), Sym("a")>>),
                   Num(1), Num(2)>>)
  /\ lastVal = Num(1)

(***************************************************************************)
(* C10                                                                     *)
(***************************************************************************)
\* s is (setq name expr) for a symbol name that eval looks up
IsSetq(s) ==
  /\ s[1] = "list"
  /\ Len(s[2]) = 3
  /\ IsSym(s[2][1], "setq")
  /\ IsOrdinary(s[2][2])

\* s is (list (setq name expr) name)
IsSetqThenRead(s) ==
  /\ s[1] = "list"
  /\ Len(s[2]) = 3
  /\ IsSym(s[2][1], "list")
  /\ IsSetq(s[2][2])
  /\ s[2][3] = s[2][2][2][2]

\* C10: a setq is read back: once (setq name expr) has stored the value v,
\* the next evaluation of name gives v, in the same expression
\* ((list (setq name expr) name) is (v v)) and at the next prompt.
ReadAfterSetq ==
  /\ [](Evaluated /\ lastErr = "" /\ IsSetqThenRead(lastS)
          => lastVal[2][2] = lastVal[2][1])
  /\ [][(/\ Evaluated /\ lastErr = "" /\ status = "run" /\ IsSetq(lastS)
         /\ lastS' = lastS[2][2]
         /\ lastErr' = "")
          => lastVal' = lastVal]_vars
====
